---- MODULE Spec2Model ----
(***************************************************************************)
(* Taste-of-Weather: the screen state machine of src/App.tsx and the three *)
(* service wrappers of src/services/geminiService.ts.                      *)
(*                                                                         *)
(* JavaScript values are modelled as tagged records so that values of      *)
(* different JavaScript types can be compared: null, undefined, a string   *)
(* S(s), an integer number N(n), a decimal number Dec(t) given in tenths.  *)
(* Enum members are written by their key (SUNNY, BREAKFAST, SPICY, ...).    *)
(***************************************************************************)
EXTENDS Integers, Sequences, FiniteSets, TLC

Null == [null |-> TRUE]

Undefined == [undefined |-> TRUE]

S(s) == [str |-> s]

N(n) == [num |-> n]

Dec(t) == [tenths |-> t]

IsString(v) == DOMAIN v = {"str"}

IsInt(v) == DOMAIN v = {"num"}

IsDec(v) == DOMAIN v = {"tenths"}

\* typeof v === 'number'
IsNumber(v) == IsInt(v) \/ IsDec(v)

\* JavaScript truthiness of a value (!v is ~Truthy(v))
Truthy(v) ==
  /\ v # Null
  /\ v # Undefined
  /\ v # S("")
  /\ v # N(0)
  /\ v # Dec(0)

(***************************************************************************)
(* Bounds of the model                                                     *)
(***************************************************************************)
\* longest array the recommendation endpoint answers with
MaxItems == 6

\* largest familiarity number the recommendation endpoint answers with
MaxFamiliarity == 6

(***************************************************************************)
(* types: enums and records                                                *)
(***************************************************************************)
WeatherCondition == {"SUNNY", "RAINY", "CLOUDY", "SNOWY", "HOT", "COLD"}

MealTime == {"BREAKFAST", "LUNCH", "DINNER", "SNACK"}

FoodPreference == {"SPICY", "MILD", "SOUP", "LIGHT", "HEAVY"}

AppStep ==
  {"welcome", "gettingWeather", "manualWeather", "preferences", "loading",
   "result", "error"}

WeatherInfo(condition, temperature) ==
  [condition |-> condition, temperature |-> temperature]

Recommendation(foodName, reason, familiarity) ==
  [foodName |-> foodName, reason |-> reason, familiarity |-> familiarity]

\* {...rec, imageUrl}: spreading null or undefined contributes no property
FinalRecommendation(rec, imageUrl) ==
  IF rec = Null \/ rec = Undefined
  THEN [foodName |-> Undefined, reason |-> Undefined,
        familiarity |-> Undefined, imageUrl |-> imageUrl]
  ELSE [foodName |-> rec.foodName, reason |-> rec.reason,
        familiarity |-> rec.familiarity, imageUrl |-> imageUrl]

(***************************************************************************)
(* Results of the async service functions: a resolved promise carries a    *)
(* value, a rejected one an Error message.                                 *)
(***************************************************************************)
Resolve(v) == [ok |-> TRUE, value |-> v]

Reject(msg) == [ok |-> FALSE, message |-> msg]

(***************************************************************************)
(* Response texts are sequences of tokens: whitespace, the markdown fences *)
(* the code strips, a plain fence it does not strip, a JSON document, and  *)
(* text that is not JSON.                                                  *)
(***************************************************************************)
Ws == [tok |-> "whitespace"]

FenceJson == [tok |-> "fence-json-newline"]

FencePlain == [tok |-> "fence-newline"]

FenceEnd == [tok |-> "newline-fence"]

Garbage == [tok |-> "not json"]

Json(v) == [json |-> v]

\* a string made of these tokens
Text(tokens) == [tokens |-> tokens]

RECURSIVE trimStart(_)
trimStart(t) == IF t # <<>> /\ Head(t) = Ws THEN trimStart(Tail(t)) ELSE t

RECURSIVE trimEnd(_)
trimEnd(t) ==
  IF t # <<>> /\ t[Len(t)] = Ws THEN trimEnd(SubSeq(t, 1, Len(t) - 1)) ELSE t

\* String.prototype.trim
trim(t) == trimEnd(trimStart(t))

\* .replace(/^FENCEjson\n/, ''): a leading fence-json-newline is removed
replaceFenceOpen(t) == IF t # <<>> /\ Head(t) = FenceJson THEN Tail(t) ELSE t

\* .replace(/\nFENCE$/, ''): a trailing newline-fence is removed
replaceFenceClose(t) ==
  IF t # <<>> /\ t[Len(t)] = FenceEnd THEN SubSeq(t, 1, Len(t) - 1) ELSE t

\* JSON.parse: one JSON document, surrounding whitespace allowed
JSONparse(t) ==
  LET u == trim(t)
  IN  IF Len(u) = 1 /\ DOMAIN u[1] = {"json"}
      THEN Resolve(u[1].json)
      ELSE Reject("SyntaxError")

\* Math.round of a decimal given in tenths: halves go up
MathRound(v) == (v.tenths + 5) \div 10

IsWeatherObject(v) == DOMAIN v = {"condition", "temperature"}

\* Object.values(WeatherCondition) as string[]
validWeathers == {S(c) : c \in WeatherCondition}

FallbackWeather == WeatherInfo("CLOUDY", 20)

\* the try block of getWeatherFromCoordinates after the API call resolved
\* with a response whose text is `text`; Reject is an exception thrown in it
weatherTry(text) ==
  IF text = Undefined THEN Reject("TypeError")
  ELSE
    LET responseText == trim(text.tokens)
        jsonString == replaceFenceClose(replaceFenceOpen(responseText))
        parsed == JSONparse(jsonString)
    IN  IF ~parsed.ok THEN parsed
        ELSE IF parsed.value = Null THEN Reject("TypeError")
        ELSE IF /\ IsWeatherObject(parsed.value)
                /\ Truthy(parsed.value.condition)
                /\ parsed.value.condition \in validWeathers
                /\ IsNumber(parsed.value.temperature)
        THEN Resolve(WeatherInfo(parsed.value.condition.str,
                                 MathRound(parsed.value.temperature)))
        ELSE Resolve(FallbackWeather)

\* faulty variant: the catch block lets the exception through
weatherCatch_rethrow(r) == r

\* the catch block of getWeatherFromCoordinates
weatherCatch(r) == IF r.ok THEN r ELSE Resolve(FallbackWeather)

\* an outcome of ai.models.generateContent: the call rejects, or resolves
\* with a response whose text is undefined or a token sequence
ApiRejected == [rejected |-> TRUE]

ApiResponse(text) == [text |-> text]

getWeatherFromCoordinates(outcome) ==
  weatherCatch(IF outcome = ApiRejected
               THEN Reject("network")
               ELSE weatherTry(outcome.text))

(***************************************************************************)
(* getFoodRecommendation                                                   *)
(***************************************************************************)
\* a JSON array
Arr(items) == [array |-> items]

\* Array.isArray
IsArray(v) == DOMAIN v = {"array"}

IsRecommendationObject(v) == DOMAIN v = {"foodName", "reason", "familiarity"}

\* faulty variant: a familiarity that is falsy (null, 0) is rejected too
firstItemCheck_falsyFamiliarity(firstItem) ==
  IF firstItem = Null \/ firstItem = Undefined THEN Reject("TypeError")
  ELSE IF ~IsRecommendationObject(firstItem)
  THEN Reject("Invalid response format from Gemini API")
  ELSE IF \/ ~Truthy(firstItem.foodName)
          \/ ~Truthy(firstItem.reason)
          \/ ~Truthy(firstItem.familiarity)
  THEN Reject("Invalid response format from Gemini API")
  ELSE Resolve(firstItem)

\* the quick validation of the first item; reading a property of null throws,
\* reading one of a value that is no object yields undefined
firstItemCheck(firstItem) ==
  IF firstItem = Null \/ firstItem = Undefined THEN Reject("TypeError")
  ELSE IF ~IsRecommendationObject(firstItem)
  THEN Reject("Invalid response format from Gemini API")
  ELSE IF \/ ~Truthy(firstItem.foodName)
          \/ ~Truthy(firstItem.reason)
          \/ firstItem.familiarity = Undefined
  THEN Reject("Invalid response format from Gemini API")
  ELSE Resolve(firstItem)

\* the try block of getFoodRecommendation after the API call resolved
recommendationTry(text) ==
  LET parsedResponse ==
        IF text = Undefined THEN Reject("SyntaxError")
        ELSE JSONparse(text.tokens)
  IN  IF ~parsedResponse.ok THEN parsedResponse
      ELSE IF \/ ~IsArray(parsedResponse.value)
              \/ Len(parsedResponse.value.array) = 0
      THEN Reject("Invalid response format: expected an array.")
      ELSE IF ~firstItemCheck(parsedResponse.value.array[1]).ok
      THEN firstItemCheck(parsedResponse.value.array[1])
      ELSE Resolve(parsedResponse.value.array)

\* the catch block of getFoodRecommendation
recommendationCatch(r) ==
  IF r.ok THEN r
  ELSE Reject("Failed to get food recommendation from Gemini API.")

getFoodRecommendation(outcome) ==
  recommendationCatch(IF outcome = ApiRejected
                      THEN Reject("network")
                      ELSE recommendationTry(outcome.text))

(***************************************************************************)
(* generateFoodImage                                                       *)
(***************************************************************************)
\* an outcome of ai.models.generateImages that resolved
ImagesResponse(generatedImages) == [generatedImages |-> generatedImages]

GeneratedImage(imageBytes) == [image |-> [imageBytes |-> imageBytes]]

\* the try block of generateFoodImage after the API call resolved
imageTry(response) ==
  IF /\ response.generatedImages # Undefined
     /\ response.generatedImages # Null
     /\ Len(response.generatedImages.array) > 0
  THEN IF response.generatedImages.array[1].image = Undefined
       THEN Reject("TypeError")
       ELSE Resolve(S("data:image/jpeg;base64,"
                      \o response.generatedImages.array[1].image.imageBytes))
  ELSE Reject("No image was generated.")

\* the catch block of generateFoodImage
imageCatch(r) ==
  IF r.ok THEN r ELSE Reject("Failed to generate food image from Gemini API.")

generateFoodImage(outcome) ==
  imageCatch(IF outcome = ApiRejected
             THEN Reject("network")
             ELSE imageTry(outcome))

(***************************************************************************)
(* The App component: its state, the requests in flight and the handlers   *)
(***************************************************************************)
VARIABLES
  step,               \* useState<AppStep>
  weather,            \* useState<WeatherInfo | null>
  mealTime,           \* useState<MealTime | null>
  foodPreference,     \* useState<FoodPreference | null>
  recommendations,    \* useState<FinalRecommendation[] | null>, Arr(list)
  error,              \* useState<string | null>
  familiarityRatings, \* useState<Record<string, number>>
  currentUserRating,  \* useState<number | null>
  effectDue,          \* the [step] effect has to run for step gettingWeather
  inflight,           \* external requests issued and not yet completed,
                      \* each with what its continuation closes over
  call                \* a service function applied to one API outcome
                      \* (used by the service specifications only)

vars ==
  <<step, weather, mealTime, foodPreference, recommendations, error,
    familiarityRatings, currentUserRating, effectDue, inflight, call>>

appState ==
  <<step, weather, mealTime, foodPreference, recommendations, error,
    familiarityRatings, currentUserRating>>

EmptyRatings == <<>>

GeoRequest == [op |-> "getCurrentPosition"]

WeatherRequest == [op |-> "getWeatherFromCoordinates"]

\* faulty variant: the request carries the table of the first render
RecommendationRequest_staleRatings(w, mt, fp, ratings) ==
  [op |-> "getFoodRecommendation", weather |-> w, mealTime |-> mt,
   foodPreference |-> fp, familiarityRatings |-> EmptyRatings]

RecommendationRequest(w, mt, fp, ratings) ==
  [op |-> "getFoodRecommendation", weather |-> w, mealTime |-> mt,
   foodPreference |-> fp, familiarityRatings |-> ratings]

ImageRequest(foodName, textRecommendations) ==
  [op |-> "generateFoodImage", foodName |-> foodName,
   textRecommendations |-> textRecommendations]

Init ==
  /\ step = "welcome"
  /\ weather = Null
  /\ mealTime = Null
  /\ foodPreference = Null
  /\ recommendations = Null
  /\ error = Null
  /\ familiarityRatings = EmptyRatings
  /\ currentUserRating = Null
  /\ effectDue = FALSE
  /\ inflight = {}
  /\ call = Null

\* the welcome screen's button
handleStart ==
  /\ step = "welcome"
  /\ step' = "gettingWeather"
  /\ effectDue' = TRUE
  /\ UNCHANGED <<weather, mealTime, foodPreference, recommendations, error,
                 familiarityRatings, currentUserRating, inflight, call>>

\* faulty variant: missing geolocation is reported on the error screen
geolocationUnsupported_showError ==
  /\ step' = "error"
  /\ error' = S("Geolocation is not supported.")
  /\ UNCHANGED <<weather, inflight>>

\* the effect's branch for a browser without navigator.geolocation
geolocationUnsupported ==
  /\ step' = "manualWeather"
  /\ UNCHANGED <<weather, error, inflight>>

\* the effect's call of navigator.geolocation.getCurrentPosition
getCurrentPosition ==
  /\ inflight' = inflight \cup {GeoRequest}
  /\ UNCHANGED <<step, weather, error>>

\* useEffect(..., [step]): runs after the render that made step gettingWeather
useEffectGettingWeather ==
  /\ effectDue
  /\ step = "gettingWeather"
  /\ effectDue' = FALSE
  /\ \E supported \in BOOLEAN :
       IF ~supported THEN geolocationUnsupported ELSE getCurrentPosition
  /\ UNCHANGED <<mealTime, foodPreference, recommendations,
                 familiarityRatings, currentUserRating, call>>

\* the success callback of getCurrentPosition up to its await
geoSuccess ==
  /\ GeoRequest \in inflight
  /\ inflight' = (inflight \ {GeoRequest}) \cup {WeatherRequest}
  /\ UNCHANGED <<appState, effectDue, call>>

\* faulty variant: the error callback skips the manual weather screen
geoError_toPreferences ==
  /\ GeoRequest \in inflight
  /\ inflight' = inflight \ {GeoRequest}
  /\ step' = "preferences"
  /\ UNCHANGED <<weather, mealTime, foodPreference, recommendations, error,
                 familiarityRatings, currentUserRating, effectDue, call>>

\* the error callback of getCurrentPosition
geoError ==
  /\ GeoRequest \in inflight
  /\ inflight' = inflight \ {GeoRequest}
  /\ step' = "manualWeather"
  /\ UNCHANGED <<weather, mealTime, foodPreference, recommendations, error,
                 familiarityRatings, currentUserRating, effectDue, call>>

\* the success callback after its await: r is what getWeatherFromCoordinates
\* settled with
weatherContinuation(r) ==
  IF r.ok
  THEN /\ weather' = r.value
       /\ step' = "preferences"
  ELSE /\ step' = "manualWeather"
       /\ UNCHANGED weather

weatherSettled(outcome) ==
  /\ WeatherRequest \in inflight
  /\ inflight' = inflight \ {WeatherRequest}
  /\ weatherContinuation(getWeatherFromCoordinates(outcome))
  /\ UNCHANGED <<mealTime, foodPreference, recommendations, error,
                 familiarityRatings, currentUserRating, effectDue, call>>

\* faulty variant: every condition keeps the default temperature
manualTemperature_alwaysDefault(condition) == 20

manualTemperature(condition) ==
  CASE condition = "HOT" -> 30
    [] condition = "COLD" -> 5
    [] condition = "SNOWY" -> -2
    [] condition = "RAINY" -> 15
    [] OTHER -> 20

\* faulty variant: the button moves on without storing the weather
handleManualWeatherSelect_noWeather(condition) ==
  /\ step = "manualWeather"
  /\ step' = "preferences"
  /\ UNCHANGED <<weather, mealTime, foodPreference, recommendations, error,
                 familiarityRatings, currentUserRating, effectDue, inflight,
                 call>>

\* a button of the manual weather screen
handleManualWeatherSelect(condition) ==
  /\ step = "manualWeather"
  /\ weather' = WeatherInfo(condition, manualTemperature(condition))
  /\ step' = "preferences"
  /\ UNCHANGED <<mealTime, foodPreference, recommendations, error,
                 familiarityRatings, currentUserRating, effectDue, inflight,
                 call>>

\* a meal time button of the preferences screen
setMealTime(mt) ==
  /\ step = "preferences"
  /\ mealTime' = S(mt)
  /\ UNCHANGED <<step, weather, foodPreference, recommendations, error,
                 familiarityRatings, currentUserRating, effectDue, inflight,
                 call>>

\* a food preference button of the preferences screen
setFoodPreference(fp) ==
  /\ step = "preferences"
  /\ foodPreference' = S(fp)
  /\ UNCHANGED <<step, weather, mealTime, recommendations, error,
                 familiarityRatings, currentUserRating, effectDue, inflight,
                 call>>

\* the message of the error screen (a fixed Korean sentence in the source)
ErrorMessage == S("Failed to create a recommendation. Please try again later.")

\* faulty variant: the catch block shows the error screen without a message
submitCatch_noMessage ==
  /\ error' = S("")
  /\ step' = "error"

\* the catch block of handlePreferencesSubmit
submitCatch ==
  /\ error' = ErrorMessage
  /\ step' = "error"

\* the submit button is rendered disabled unless both choices are made
submitEnabled == ~(mealTime = Null \/ foodPreference = Null)

\* faulty variant: the request is sent without showing the loading screen
handlePreferencesSubmit_noLoadingScreen ==
  /\ step = "preferences"
  /\ submitEnabled
  /\ error' = Null
  /\ inflight' = inflight \cup
       {RecommendationRequest(weather, mealTime, foodPreference,
                              familiarityRatings)}
  /\ UNCHANGED <<step, weather, mealTime, foodPreference, recommendations,
                 familiarityRatings, currentUserRating, effectDue, call>>

\* faulty variant: the callback has no early return
handlePreferencesSubmitCallback_noGuard ==
  /\ step' = "loading"
  /\ error' = Null
  /\ inflight' = inflight \cup
       {RecommendationRequest(weather, mealTime, foodPreference,
                              familiarityRatings)}

\* the callback of handlePreferencesSubmit up to its first await
handlePreferencesSubmitCallback ==
  IF mealTime = Null \/ foodPreference = Null
  THEN UNCHANGED <<step, error, inflight>>
  ELSE /\ step' = "loading"
       /\ error' = Null
       /\ inflight' = inflight \cup
            {RecommendationRequest(weather, mealTime, foodPreference,
                                   familiarityRatings)}

\* the submit button of the preferences screen calls the callback
handlePreferencesSubmit ==
  /\ step = "preferences"
  /\ submitEnabled
  /\ handlePreferencesSubmitCallback
  /\ UNCHANGED <<weather, mealTime, foodPreference, recommendations,
                 familiarityRatings, currentUserRating, effectDue, call>>

\* faulty variant: the image is requested for the reason text of the first
\* recommendation instead of its food name
recommendationContinuation_imageOfReason(req, r) ==
  IF ~r.ok
  THEN /\ submitCatch
       /\ inflight' = inflight \ {req}
       /\ UNCHANGED currentUserRating
  ELSE /\ currentUserRating' = r.value[1].familiarity
       /\ inflight' = (inflight \ {req}) \cup
            {ImageRequest(r.value[1].reason, r.value)}
       /\ UNCHANGED <<step, error>>

\* handlePreferencesSubmit from the first await to the second: r is what
\* getFoodRecommendation settled with
recommendationContinuation(req, r) ==
  IF ~r.ok
  THEN /\ submitCatch
       /\ inflight' = inflight \ {req}
       /\ UNCHANGED currentUserRating
  ELSE IF Len(r.value) = 0
  THEN /\ submitCatch
       /\ inflight' = inflight \ {req}
       /\ UNCHANGED currentUserRating
  ELSE /\ currentUserRating' = r.value[1].familiarity
       /\ inflight' = (inflight \ {req}) \cup
            {ImageRequest(r.value[1].foodName, r.value)}
       /\ UNCHANGED <<step, error>>

recommendationSettled(outcome) ==
  /\ \E req \in inflight :
       /\ req.op = "getFoodRecommendation"
       /\ recommendationContinuation(req, getFoodRecommendation(outcome))
  /\ UNCHANGED <<weather, mealTime, foodPreference, recommendations,
                 familiarityRatings, effectDue, call>>

\* faulty variant: the image is attached to every item
finalRecommendations_imageOnAll(textRecommendations, imageUrl) ==
  [index \in 1..Len(textRecommendations) |->
     FinalRecommendation(textRecommendations[index], imageUrl)]

\* textRecommendations.map((rec, index) => ({...rec, imageUrl: ...}))
finalRecommendations(textRecommendations, imageUrl) ==
  [index \in 1..Len(textRecommendations) |->
     FinalRecommendation(textRecommendations[index],
                         IF index = 1 THEN imageUrl ELSE S(""))]

\* faulty variant: a failed image call is not caught
imageContinuation_uncaught(req, r) ==
  IF r.ok
  THEN /\ recommendations' =
            Arr(finalRecommendations(req.textRecommendations, r.value))
       /\ step' = "result"
       /\ UNCHANGED error
  ELSE UNCHANGED <<step, error, recommendations>>

\* faulty variant: a failed image call keeps the text recommendations
imageContinuation_keepText(req, r) ==
  IF r.ok
  THEN /\ recommendations' =
            Arr(finalRecommendations(req.textRecommendations, r.value))
       /\ step' = "result"
       /\ UNCHANGED error
  ELSE /\ submitCatch
       /\ recommendations' = Arr(req.textRecommendations)

\* handlePreferencesSubmit after the second await: r is what
\* generateFoodImage settled with
imageContinuation(req, r) ==
  IF r.ok
  THEN /\ recommendations' =
            Arr(finalRecommendations(req.textRecommendations, r.value))
       /\ step' = "result"
       /\ UNCHANGED error
  ELSE /\ submitCatch
       /\ UNCHANGED recommendations

imageSettled(outcome) ==
  /\ \E req \in inflight :
       /\ req.op = "generateFoodImage"
       /\ inflight' = inflight \ {req}
       /\ imageContinuation(req, generateFoodImage(outcome))
  /\ UNCHANGED <<weather, mealTime, foodPreference, familiarityRatings,
                 currentUserRating, effectDue, call>>

\* FamiliarityRating: the range input of the primary recommendation
SliderMin == 1

maxScore == 5

\* the result screen renders null unless this holds
resultRendered ==
  ~(recommendations = Null \/ Len(recommendations.array) = 0
    \/ currentUserRating = Null)

\* handleSliderChange -> onScoreChange = setCurrentUserRating
handleSliderChange(value) ==
  /\ step = "result"
  /\ resultRendered
  /\ currentUserRating' = N(value)
  /\ UNCHANGED <<step, weather, mealTime, foodPreference, recommendations,
                 error, familiarityRatings, effectDue, inflight, call>>

\* faulty variant: the table is replaced instead of extended
withRating_replaceTable(prevRatings, foodName, rating) ==
  [k \in {foodName} |-> rating]

\* {...prevRatings, [foodName]: rating}
withRating(prevRatings, foodName, rating) ==
  [k \in DOMAIN prevRatings \cup {foodName} |->
     IF k = foodName THEN rating ELSE prevRatings[k]]

\* the seven setters shared by resetAndSaveRating and resetFromError
resetSession ==
  /\ step' = "welcome"
  /\ weather' = Null
  /\ mealTime' = Null
  /\ foodPreference' = Null
  /\ recommendations' = Null
  /\ currentUserRating' = Null
  /\ error' = Null

\* the first statement of resetAndSaveRating
saveRating ==
  IF /\ recommendations # Null
     /\ Len(recommendations.array) > 0
     /\ currentUserRating # Null
  THEN familiarityRatings' =
         withRating(familiarityRatings,
                    recommendations.array[1].foodName.str,
                    currentUserRating)
  ELSE UNCHANGED familiarityRatings

\* the result screen's button
resetAndSaveRating ==
  /\ step = "result"
  /\ resultRendered
  /\ saveRating
  /\ resetSession
  /\ UNCHANGED <<effectDue, inflight, call>>

\* faulty variant: the error screen's button also empties the table
resetFromError_clearTable ==
  /\ step = "error"
  /\ resetSession
  /\ familiarityRatings' = EmptyRatings
  /\ UNCHANGED <<effectDue, inflight, call>>

\* faulty variant: the error screen's button returns to the preferences
resetFromError_toPreferences ==
  /\ step = "error"
  /\ step' = "preferences"
  /\ error' = Null
  /\ UNCHANGED <<weather, mealTime, foodPreference, recommendations,
                 currentUserRating, familiarityRatings, effectDue, inflight,
                 call>>

\* the error screen's button
resetFromError ==
  /\ step = "error"
  /\ resetSession
  /\ UNCHANGED <<familiarityRatings, effectDue, inflight, call>>

(***************************************************************************)
(* The environment: what the user picks and what the endpoints answer      *)
(***************************************************************************)
\* ways a JSON body `body` arrives as response text
Fencings(body) ==
  { <<body>>,
    <<Ws, body, Ws>>,
    <<FenceJson, body, FenceEnd>>,
    <<Ws, FenceJson, body, FenceEnd, Ws>>,
    <<FenceJson, Ws, body, FenceEnd>>,
    <<FenceJson, body>>,
    <<FencePlain, body, FenceEnd>>,
    <<body, Garbage>> }

WeatherBodies(conditions, temperatures) ==
  {Garbage, Json(Null), Json(Dec(200)), Json(S("SUNNY"))}
    \cup {Json([condition |-> c, temperature |-> t]) :
            c \in conditions, t \in temperatures}

\* outcomes of the weather-inference call
WeatherApiOutcomes(conditions, temperatures) ==
  {ApiRejected, ApiResponse(Undefined), ApiResponse(Text(<<>>))}
    \cup {ApiResponse(Text(t)) :
            t \in UNION {Fencings(b) :
                           b \in WeatherBodies(conditions, temperatures)}}

\* the weather answers of the App specification
WeatherOutcomes ==
  WeatherApiOutcomes({Undefined, S("STORM"), S("SUNNY")},
                     {Undefined, S("25"), Dec(254)})

\* the weather answers of the weather service specification
AllConditions ==
  {Undefined, Null, S(""), S("STORM"), S("sunny"), Dec(10)} \cup validWeathers

AllTemperatures ==
  {Undefined, Null, S("20"), S("")}
    \cup {Dec(t) : t \in {-25, -24, -5, -4, 0, 4, 5, 200, 254, 255}}

AllWeatherOutcomes == WeatherApiOutcomes(AllConditions, AllTemperatures)

\* familiarity values the recommendation endpoint answers with
FamiliarityAnswers == {Undefined, Null, N(3), N(MaxFamiliarity)}

FirstItems ==
  {Null, N(7)}
    \cup {Recommendation(f, r, fam) :
            f \in {Undefined, S(""), S("bibimbap"), S("naengmyeon")},
            r \in {Undefined, S(""), S("fits the weather")},
            fam \in FamiliarityAnswers}

TailNames == <<"kimchi-jjigae", "samgyetang", "tteokbokki">>

TailItem(index) ==
  Recommendation(S(TailNames[(index % 3) + 1]), S("also good"),
                 N((index % 5) + 1))

\* the number of dishes the prompt asks for
RequestedCount == 5

\* lengths of the arrays the recommendation endpoint answers with
ItemCounts == {1, RequestedCount, MaxItems}

RecommendationArrays ==
  {<<>>}
    \cup {[i \in 1..n |-> IF i = 1 THEN first ELSE TailItem(i)] :
            first \in FirstItems, n \in ItemCounts}
    \cup {<<first, Null>> : first \in FirstItems}

\* outcomes of the recommendation call
RecommendationOutcomes ==
  {ApiRejected, ApiResponse(Undefined), ApiResponse(Text(<<Garbage>>)),
   ApiResponse(Text(<<Json(Null)>>)), ApiResponse(Text(<<Json(TailItem(1))>>))}
    \cup {ApiResponse(Text(<<Json(Arr(a))>>)) : a \in RecommendationArrays}

\* outcomes of the image call
ImageOutcomes ==
  {ApiRejected, ImagesResponse(Undefined), ImagesResponse(Arr(<<>>)),
   ImagesResponse(Arr(<<[image |-> Undefined]>>)),
   ImagesResponse(Arr(<<GeneratedImage("/9j/4AAQSkZJRg")>>)),
   ImagesResponse(Arr(<<GeneratedImage("/9j/4AAQSkZJRg"),
                        GeneratedImage("iVBORw0KGgo")>>))}

\* the meal times and food preferences the modelled user picks
MealTimeChoices == {"LUNCH", "DINNER"}

FoodPreferenceChoices == {"SPICY", "SOUP"}

Next ==
  \/ handleStart
  \/ useEffectGettingWeather
  \/ geoSuccess
  \/ geoError
  \/ \E outcome \in WeatherOutcomes : weatherSettled(outcome)
  \/ \E condition \in WeatherCondition : handleManualWeatherSelect(condition)
  \/ \E mt \in MealTimeChoices : setMealTime(mt)
  \/ \E fp \in FoodPreferenceChoices : setFoodPreference(fp)
  \/ handlePreferencesSubmit
  \/ \E outcome \in RecommendationOutcomes : recommendationSettled(outcome)
  \/ \E outcome \in ImageOutcomes : imageSettled(outcome)
  \/ \E value \in SliderMin..maxScore : handleSliderChange(value)
  \/ resetAndSaveRating
  \/ resetFromError

Spec == Init /\ [][Next]_vars

(***************************************************************************)
(* The App with its scheduling: React runs a pending effect, geolocation   *)
(* calls one of its two callbacks, and every API call settles              *)
(***************************************************************************)
\* a pending effect runs or a pending external call completes
Completion ==
  \/ useEffectGettingWeather
  \/ geoSuccess
  \/ geoError
  \/ \E outcome \in WeatherOutcomes : weatherSettled(outcome)
  \/ \E outcome \in RecommendationOutcomes : recommendationSettled(outcome)
  \/ \E outcome \in ImageOutcomes : imageSettled(outcome)

Fairness == WF_vars(Completion)

\* the slider positions the user of the scheduled App moves to: its two ends
SliderEnds == {SliderMin, maxScore}

NextFair ==
  \/ handleStart
  \/ useEffectGettingWeather
  \/ geoSuccess
  \/ geoError
  \/ \E outcome \in WeatherOutcomes : weatherSettled(outcome)
  \/ \E condition \in WeatherCondition : handleManualWeatherSelect(condition)
  \/ \E mt \in MealTimeChoices : setMealTime(mt)
  \/ \E fp \in FoodPreferenceChoices : setFoodPreference(fp)
  \/ handlePreferencesSubmit
  \/ \E outcome \in RecommendationOutcomes : recommendationSettled(outcome)
  \/ \E outcome \in ImageOutcomes : imageSettled(outcome)
  \/ \E value \in SliderEnds : handleSliderChange(value)
  \/ resetAndSaveRating
  \/ resetFromError

SpecFair == Init /\ [][NextFair]_vars /\ Fairness

(***************************************************************************)
(* The weather service on its own: getWeatherFromCoordinates applied to    *)
(* every modelled API outcome                                              *)
(***************************************************************************)
InitWeatherService ==
  /\ step = "welcome"
  /\ weather = Null
  /\ mealTime = Null
  /\ foodPreference = Null
  /\ recommendations = Null
  /\ error = Null
  /\ familiarityRatings = EmptyRatings
  /\ currentUserRating = Null
  /\ effectDue = FALSE
  /\ inflight = {}
  /\ call \in {[fn |-> "getWeatherFromCoordinates", outcome |-> o,
                settled |-> Null] : o \in AllWeatherOutcomes}

callGetWeatherFromCoordinates ==
  /\ call # Null
  /\ call.fn = "getWeatherFromCoordinates"
  /\ call.settled = Null
  /\ call' = [call EXCEPT !.settled = getWeatherFromCoordinates(call.outcome)]
  /\ UNCHANGED <<appState, effectDue, inflight>>

NextWeatherService == callGetWeatherFromCoordinates

SpecWeatherService == InitWeatherService /\ [][NextWeatherService]_vars

(***************************************************************************)
(* The recommendation service on its own: getFoodRecommendation applied to *)
(* every modelled API outcome                                              *)
(***************************************************************************)
\* first elements of the answers of the recommendation service specification
ServiceFirstItems ==
  FirstItems
    \cup {Recommendation(Null, S("fits the weather"), N(3)),
          Recommendation(S("bibimbap"), Null, N(3)),
          Recommendation(S("bibimbap"), S("fits the weather"), N(0)),
          S("bibimbap")}

\* later elements of these answers
LaterItems ==
  {Null, N(7), TailItem(2),
   Recommendation(Undefined, Undefined, Undefined),
   Recommendation(S(""), S(""), Null)}

ServiceArrays ==
  {<<>>}
    \cup {<<first>> : first \in ServiceFirstItems}
    \cup {<<first, later>> : first \in ServiceFirstItems, later \in LaterItems}
    \cup {<<first, TailItem(2), later>> :
            first \in ServiceFirstItems, later \in LaterItems}

\* ways a JSON body arrives as the text of a recommendation response
RecommendationTexts(body) ==
  {<<body>>, <<Ws, body, Ws>>, <<FenceJson, body, FenceEnd>>,
   <<body, Garbage>>}

AllRecommendationOutcomes ==
  {ApiRejected, ApiResponse(Undefined), ApiResponse(Text(<<>>)),
   ApiResponse(Text(<<Garbage>>))}
    \cup {ApiResponse(Text(t)) :
            t \in UNION {RecommendationTexts(Json(v)) :
                           v \in {Null, N(7), S("bibimbap"), TailItem(1)}
                                   \cup {Arr(a) : a \in ServiceArrays}}}

InitRecommendationService ==
  /\ step = "welcome"
  /\ weather = Null
  /\ mealTime = Null
  /\ foodPreference = Null
  /\ recommendations = Null
  /\ error = Null
  /\ familiarityRatings = EmptyRatings
  /\ currentUserRating = Null
  /\ effectDue = FALSE
  /\ inflight = {}
  /\ call \in {[fn |-> "getFoodRecommendation", outcome |-> o,
                settled |-> Null] : o \in AllRecommendationOutcomes}

callGetFoodRecommendation ==
  /\ call # Null
  /\ call.fn = "getFoodRecommendation"
  /\ call.settled = Null
  /\ call' = [call EXCEPT !.settled = getFoodRecommendation(call.outcome)]
  /\ UNCHANGED <<appState, effectDue, inflight>>

NextRecommendationService == callGetFoodRecommendation

SpecRecommendationService ==
  InitRecommendationService /\ [][NextRecommendationService]_vars

(***************************************************************************)
(* The callback of handlePreferencesSubmit called on the preferences       *)
(* screen whatever the two choices are, the button's disabled attribute    *)
(* left aside: call records the choices it was called with                 *)
(***************************************************************************)
InitSubmitCallback ==
  /\ step = "welcome"
  /\ weather = Null
  /\ mealTime = Null
  /\ foodPreference = Null
  /\ recommendations = Null
  /\ error = Null
  /\ familiarityRatings = EmptyRatings
  /\ currentUserRating = Null
  /\ effectDue = FALSE
  /\ inflight = {}
  /\ call = [fn |-> "handlePreferencesSubmit", settled |-> Null]

callHandlePreferencesSubmit ==
  /\ call # Null
  /\ call.fn = "handlePreferencesSubmit"
  /\ call.settled = Null
  /\ step = "preferences"
  /\ handlePreferencesSubmitCallback
  /\ call' = [call EXCEPT !.settled = [mealTime |-> mealTime,
                                       foodPreference |-> foodPreference]]
  /\ UNCHANGED <<weather, mealTime, foodPreference, recommendations,
                 familiarityRatings, currentUserRating, effectDue>>

NextSubmitCallback ==
  \/ handleStart
  \/ useEffectGettingWeather
  \/ geoSuccess
  \/ geoError
  \/ \E outcome \in WeatherOutcomes : weatherSettled(outcome)
  \/ \E condition \in WeatherCondition : handleManualWeatherSelect(condition)
  \/ \E mt \in MealTimeChoices : setMealTime(mt)
  \/ \E fp \in FoodPreferenceChoices : setFoodPreference(fp)
  \/ callHandlePreferencesSubmit

SpecSubmitCallback == InitSubmitCallback /\ [][NextSubmitCallback]_vars

(***************************************************************************)
(* Properties                                                              *)
(***************************************************************************)
StepEdges ==
  { <<"welcome", "gettingWeather">>,
    <<"gettingWeather", "manualWeather">>,
    <<"gettingWeather", "preferences">>,
    <<"manualWeather", "preferences">>,
    <<"preferences", "loading">>,
    <<"loading", "result">>,
    <<"loading", "error">>,
    <<"result", "welcome">>,
    <<"error", "welcome">> }

\* C1: the step only ever changes along the nine edges of StepEdges, in
\* every sequence of user actions and callback completions.
C1_StepEdges == [][step' # step => <<step, step'>> \in StepEdges]_vars

\* a second session has begun after a saved rating: the whole cycle
\* welcome ... result -> welcome -> gettingWeather was walked
C1_Witness ==
  step = "gettingWeather" /\ familiarityRatings # EmptyRatings

\* the effect ran and issued no geolocation request: navigator.geolocation
\* is absent
GeolocationUnsupportedStep ==
  effectDue /\ ~effectDue' /\ GeoRequest \notin inflight'

\* the geolocation request completed without starting the weather call: its
\* error callback ran
GeolocationFailedStep ==
  /\ GeoRequest \in inflight
  /\ GeoRequest \notin inflight'
  /\ WeatherRequest \notin inflight'

\* C2: in step gettingWeather, when geolocation is unsupported or the
\* geolocation request fails, the next step is manualWeather, and weather
\* and error are null before and after.
C2_GeolocationFallback ==
  [][(step = "gettingWeather"
      /\ (GeolocationUnsupportedStep \/ GeolocationFailedStep))
     => /\ step' = "manualWeather"
        /\ weather = Null /\ weather' = Null
        /\ error = Null /\ error' = Null]_vars

\* the manual weather screen of a second session, reached by the fallback
C2_Witness ==
  /\ step = "manualWeather"
  /\ weather = Null
  /\ error = Null
  /\ inflight = {}
  /\ familiarityRatings # EmptyRatings

\* weather-inference outcomes that are failures: the call rejects, the
\* response has no text, the text is not JSON, the JSON is unusable
FailedWeatherOutcomes ==
  {ApiRejected, ApiResponse(Undefined), ApiResponse(Text(<<Garbage>>)),
   ApiResponse(Text(<<Json(Null)>>)),
   ApiResponse(Text(<<Json([condition |-> S("STORM"),
                            temperature |-> Undefined])>>))}

\* C3: when geolocation succeeded and the weather-inference call fails, the
\* step goes from gettingWeather to manualWeather, not to preferences.
C3_WeatherFailureToManual ==
  [][\A outcome \in FailedWeatherOutcomes :
       (step = "gettingWeather" /\ weatherSettled(outcome))
         => step' = "manualWeather"]_vars

\* a preference submission's request completes
SubmissionRequestCompletes ==
  \E req \in inflight :
    /\ req.op \in {"getFoodRecommendation", "generateFoodImage"}
    /\ req \notin inflight'

\* C4: no outcome of weather resolution is shown as an error: a step taken
\* in gettingWeather never leads to step error and leaves error null, and
\* error becomes non-null only when a request of a preference submission
\* completes.
C4_WeatherNeverAnError ==
  [][/\ step = "gettingWeather"
          => (step' # "error" /\ error = Null /\ error' = Null)
     /\ (error = Null /\ error' # Null) => SubmissionRequestCompletes]_vars

\* weather resolution has ended, by a failed lookup, with no error shown
C4_Witness ==
  /\ step \in {"manualWeather", "preferences"}
  /\ mealTime = Null
  /\ foodPreference = Null
  /\ error = Null
  /\ inflight = {}

\* the JSON document of a response text that is exactly one document,
\* optionally preceded by the opening json fence, followed by the closing
\* fence, and with whitespace around; Undefined for every other text
CleanDocument(tokens) ==
  LET core == SelectSeq(tokens, LAMBDA t : t # Ws)
      from == IF core # <<>> /\ core[1] = FenceJson THEN 2 ELSE 1
      to == IF core # <<>> /\ core[Len(core)] = FenceEnd
            THEN Len(core) - 1 ELSE Len(core)
  IN  IF from = to /\ DOMAIN core[from] = {"json"}
      THEN core[from].json
      ELSE Undefined

\* the call threw, the text does not parse, the condition is not one of the
\* six labels, or the temperature is not a number
WeatherFailure(outcome) ==
  \/ outcome = ApiRejected
  \/ outcome.text = Undefined
  \/ LET doc == CleanDocument(outcome.text.tokens)
     IN  \/ doc = Undefined
         \/ DOMAIN doc # {"condition", "temperature"}
         \/ \A c \in WeatherCondition : doc.condition # S(c)
         \/ DOMAIN doc.temperature # {"tenths"}

MalformedFirstItems ==
  {item \in FirstItems :
     \/ DOMAIN item # {"foodName", "reason", "familiarity"}
     \/ item.foodName \in {Undefined, Null, S("")}
     \/ item.reason \in {Undefined, Null, S("")}
     \/ item.familiarity = Undefined}

\* recommendation outcomes that are failures: the call rejects, or the
\* response is empty or malformed
FailedRecommendationOutcomes ==
  {ApiRejected, ApiResponse(Undefined), ApiResponse(Text(<<Garbage>>)),
   ApiResponse(Text(<<Json(Null)>>)),
   ApiResponse(Text(<<Json(TailItem(1))>>)),
   ApiResponse(Text(<<Json(Arr(<<>>))>>))}
    \cup {ApiResponse(Text(<<Json(Arr(a))>>)) :
            a \in {b \in RecommendationArrays :
                     b # <<>> /\ b[1] \in MalformedFirstItems}}

\* image outcomes that are failures: the call rejects or returns no image
FailedImageOutcomes ==
  {ApiRejected, ImagesResponse(Undefined), ImagesResponse(Arr(<<>>)),
   ImagesResponse(Arr(<<[image |-> Undefined]>>))}

\* a preference submission fails at this step
SubmissionFails ==
  \/ \E outcome \in FailedRecommendationOutcomes :
       recommendationSettled(outcome)
  \/ \E outcome \in FailedImageOutcomes : imageSettled(outcome)

SessionCleared ==
  /\ weather = Null
  /\ mealTime = Null
  /\ foodPreference = Null
  /\ recommendations = Null
  /\ currentUserRating = Null
  /\ error = Null

\* C6: a failure of the recommendation call or of the image call during a
\* preference submission takes the step from loading to error with a
\* non-empty error message; on the error screen the reset is available, and
\* leaving the error step leads to welcome with every session field null.
C6_SubmissionErrorAndReset ==
  /\ [][SubmissionFails =>
          /\ step = "loading"
          /\ step' = "error"
          /\ error' # Null
          /\ error'.str # ""]_vars
  /\ [](step = "error" => ENABLED resetFromError)
  /\ [][(step = "error" /\ step' # "error") =>
          (step' = "welcome" /\ SessionCleared')]_vars

\* the error screen after the image call failed: the recommendation call
\* had succeeded and set the rating
C6_Witness ==
  /\ step = "error"
  /\ error # Null
  /\ currentUserRating # Null
  /\ inflight = {}

\* a well-formed item: a non-empty name, a non-empty reason and a number
WellFormedItem(item) ==
  /\ DOMAIN item = {"foodName", "reason", "familiarity"}
  /\ DOMAIN item.foodName = {"str"} /\ item.foodName.str # ""
  /\ DOMAIN item.reason = {"str"} /\ item.reason.str # ""
  /\ DOMAIN item.familiarity = {"num"}

\* the answers of the recommendation endpoint with 5 well-formed items
WellFormedFive ==
  {a \in RecommendationArrays :
     Len(a) = RequestedCount
     /\ \A i \in 1..RequestedCount : WellFormedItem(a[i])}

ImageBytes == {"/9j/4AAQSkZJRg", "iVBORw0KGgo"}

\* the list `a` as the result screen must hold it, with image `url`
SameItemsImageOnFirst(list, a, url) ==
  /\ Len(list) = Len(a)
  /\ \A i \in 1..Len(a) :
       /\ list[i].foodName = a[i].foodName
       /\ list[i].reason = a[i].reason
       /\ list[i].familiarity = a[i].familiarity
       /\ list[i].imageUrl = IF i = 1 THEN url ELSE S("")

\* C7: when the recommendation call returns 5 well-formed items they are
\* kept as returned for the image call, and when the image call then
\* succeeds the step goes from loading to result and recommendations holds
\* the same items in the same order, the returned image on the first item
\* and the empty string on every other.
C7_FiveItemsImageOnFirst ==
  /\ [][\A a \in WellFormedFive :
          recommendationSettled(ApiResponse(Text(<<Json(Arr(a))>>)))
            => /\ step = "loading" /\ step' = "loading"
               /\ \E req \in inflight' :
                    /\ req.op = "generateFoodImage"
                    /\ req.textRecommendations = a]_vars
  /\ [][\A bytes \in ImageBytes, req \in inflight :
          (/\ req.op = "generateFoodImage"
           /\ req.textRecommendations \in WellFormedFive
           /\ imageSettled(ImagesResponse(Arr(<<GeneratedImage(bytes)>>))))
            => /\ step = "loading" /\ step' = "result"
               /\ recommendations' # Null
               /\ SameItemsImageOnFirst(
                    recommendations'.array, req.textRecommendations,
                    S("data:image/jpeg;base64," \o bytes))]_vars

\* the result screen holding 5 items with an image on the first
C7_Witness ==
  /\ step = "result"
  /\ recommendations # Null
  /\ Len(recommendations.array) = RequestedCount
  /\ \A i \in 1..RequestedCount :
       recommendations.array[i].familiarity # Undefined
  /\ recommendations.array[1].imageUrl # S("")
  /\ recommendations.array[2].imageUrl = S("")

\* the table `after` is `before` with the entry of `name` set to `rating`
\* and every other entry as it was
RatingSaved(before, after, name, rating) ==
  /\ DOMAIN after = DOMAIN before \cup {name}
  /\ after[name] = rating
  /\ \A k \in DOMAIN before : k # name => after[k] = before[k]

\* C8: leaving the result step (resetAndSaveRating) sets the table entry of
\* the first recommendation's food name to the current user rating, leaves
\* every other entry unchanged, and ends in step welcome with every session
\* field null; the current user rating is the AI-estimated familiarity of
\* the first item when the result step is entered and changes only to a
\* slider value after that.
C8_SaveRatingAndReset ==
  /\ [][(step = "result" /\ step' # "result") =>
          /\ RatingSaved(familiarityRatings, familiarityRatings',
                         recommendations.array[1].foodName.str,
                         currentUserRating)
          /\ step' = "welcome"
          /\ SessionCleared']_vars
  /\ [][(step # "result" /\ step' = "result") =>
          currentUserRating' = recommendations'.array[1].familiarity]_vars
  /\ [][(step = "result" /\ step' = "result"
         /\ currentUserRating' # currentUserRating) =>
          \E value \in SliderMin..maxScore :
            currentUserRating' = N(value)]_vars

\* back on the welcome screen with two foods rated in two sessions, the
\* earlier entry kept and the ratings different
C8_Witness ==
  /\ step = "welcome"
  /\ DOMAIN familiarityRatings = {"bibimbap", "naengmyeon"}
  /\ familiarityRatings["bibimbap"] # familiarityRatings["naengmyeon"]

\* C9: every list getFoodRecommendation returns to the app, and every
\* recommendations list held in step result, has exactly 5 entries.
C9_ExactlyFiveResults ==
  /\ \A req \in inflight :
       req.op = "generateFoodImage" =>
         Len(req.textRecommendations) = RequestedCount
  /\ step = "result" =>
       /\ recommendations # Null
       /\ Len(recommendations.array) = RequestedCount

\* a familiarity score: an integer from 1 to 5
IsFamiliarityScore(v) == DOMAIN v = {"num"} /\ v.num \in 1..5

\* C10: in every reachable state the current user rating (when non-null),
\* the familiarity of every stored recommendation and every value of the
\* familiarityRatings table is an integer from 1 to 5.
C10_FamiliarityInRange ==
  /\ currentUserRating # Null => IsFamiliarityScore(currentUserRating)
  /\ recommendations # Null =>
       \A i \in 1..Len(recommendations.array) :
         IsFamiliarityScore(recommendations.array[i].familiarity)
  /\ \A k \in DOMAIN familiarityRatings :
       IsFamiliarityScore(familiarityRatings[k])

\* the array of a response text that is exactly one JSON array, with
\* whitespace around at most; Undefined for every other outcome
AnsweredArray(outcome) ==
  IF outcome = ApiRejected THEN Undefined
  ELSE IF outcome.text = Undefined THEN Undefined
  ELSE LET core == SelectSeq(outcome.text.tokens, LAMBDA t : t # Ws)
       IN  IF /\ Len(core) = 1
              /\ DOMAIN core[1] = {"json"}
              /\ DOMAIN core[1].json = {"array"}
           THEN core[1].json
           ELSE Undefined

\* a non-empty foodName, a non-empty reason and a defined familiarity
AcceptedFirstItem(item) ==
  /\ DOMAIN item = {"foodName", "reason", "familiarity"}
  /\ DOMAIN item.foodName = {"str"} /\ item.foodName.str # ""
  /\ DOMAIN item.reason = {"str"} /\ item.reason.str # ""
  /\ item.familiarity # Undefined

GenericRecommendationError ==
  Reject("Failed to get food recommendation from Gemini API.")

\* C11: getFoodRecommendation validates only the first array element: it
\* returns the parsed array when it is a non-empty array whose first element
\* has a non-empty foodName, a non-empty reason and a defined familiarity,
\* whatever the later elements are, and fails with the one generic error in
\* every other case.
C11_FirstElementOnly ==
  (call # Null /\ call.settled # Null) =>
    LET answered == AnsweredArray(call.outcome)
    IN  IF /\ answered # Undefined
           /\ answered.array # <<>>
           /\ AcceptedFirstItem(answered.array[1])
        THEN call.settled = Resolve(answered.array)
        ELSE call.settled = GenericRecommendationError

\* an array was returned although its second element is null and its first
\* element's familiarity is null
C11_Witness ==
  /\ call # Null
  /\ call.settled # Null
  /\ call.settled.ok
  /\ Len(call.settled.value) = 2
  /\ call.settled.value[2] = Null
  /\ call.settled.value[1].familiarity = Null

\* what the user can do on the screen of the current step
UserAction ==
  \/ handleStart
  \/ \E condition \in WeatherCondition : handleManualWeatherSelect(condition)
  \/ \E mt \in MealTimeChoices : setMealTime(mt)
  \/ \E fp \in FoodPreferenceChoices : setFoodPreference(fp)
  \/ handlePreferencesSubmit
  \/ \E value \in SliderMin..maxScore : handleSliderChange(value)
  \/ resetAndSaveRating
  \/ resetFromError

\* C12: at most one external request is in flight at any time; while one is
\* in flight the step is the waiting step that issued it (gettingWeather
\* for geolocation and weather inference, loading for recommendation and
\* image) and no user action is enabled.
C12_OneRequestInFlight ==
  /\ Cardinality(inflight) <= 1
  /\ \A req \in inflight :
       /\ req.op \in {"getCurrentPosition", "getWeatherFromCoordinates"}
            => step = "gettingWeather"
       /\ req.op \in {"getFoodRecommendation", "generateFoodImage"}
            => step = "loading"
  /\ (inflight # {} \/ effectDue) => ~ENABLED UserAction
  /\ effectDue => inflight = {}

\* the image request of a second session is in flight
C12_Witness ==
  /\ \E req \in inflight : req.op = "generateFoodImage"
  /\ familiarityRatings # EmptyRatings

\* the recommendation requests issued at this step
NewRecommendationRequests ==
  {req \in inflight' \ inflight : req.op = "getFoodRecommendation"}

\* C13: every recommendation request carries the familiarity table as it is
\* at the moment of submission (the rating of the preceding save-and-retry
\* included) together with the selected meal time and food preference, and
\* the table does not change while the request is pending.
C13_RequestCarriesCurrentTable ==
  /\ [][\A req \in NewRecommendationRequests :
          /\ req.familiarityRatings = familiarityRatings
          /\ req.mealTime = mealTime /\ mealTime # Null
          /\ req.foodPreference = foodPreference /\ foodPreference # Null
          /\ req.weather = weather]_vars
  /\ [](\A req \in inflight :
          req.op = "getFoodRecommendation" =>
            /\ req.familiarityRatings = familiarityRatings
            /\ req.mealTime = mealTime
            /\ req.foodPreference = foodPreference)

\* the request of a third session carries the two ratings saved before
C13_Witness ==
  \E req \in inflight :
    /\ req.op = "getFoodRecommendation"
    /\ DOMAIN req.familiarityRatings = {"bibimbap", "naengmyeon"}
    /\ req.mealTime = S("DINNER")

\* the image requests issued at this step
NewImageRequests ==
  {req \in inflight' \ inflight : req.op = "generateFoodImage"}

\* C14: an image request is issued only when the recommendation request of
\* the submission completes with a non-empty list, one at most, for the food
\* name of the first recommendation; a submission issues one recommendation
\* request, and when that call fails or is empty no image request is issued.
C14_OneImageRequestForFirst ==
  [][/\ Cardinality(NewImageRequests) <= 1
     /\ Cardinality(NewRecommendationRequests) <= 1
     /\ NewRecommendationRequests # {} =>
          (step = "preferences" /\ step' = "loading" /\ inflight = {})
     /\ \A req \in NewImageRequests :
          /\ step = "loading"
          /\ \A old \in inflight : old.op = "getFoodRecommendation"
          /\ inflight # {}
          /\ inflight' = {req}
          /\ Len(req.textRecommendations) > 0
          /\ req.foodName = req.textRecommendations[1].foodName
     /\ inflight' # {} =>
          ~\E outcome \in FailedRecommendationOutcomes :
             recommendationSettled(outcome)]_vars

\* the image of a tail-less answer's only dish is being requested
C14_Witness ==
  \E req \in inflight :
    /\ req.op = "generateFoodImage"
    /\ req.foodName = S("naengmyeon")
    /\ Len(req.textRecommendations) = 1

\* C15: the familiarity table accumulates across sessions: only
\* resetAndSaveRating (the step from result to welcome) changes it, every
\* other operation leaves it unchanged, and a food name once in the table
\* is never removed.
C15_TableAccumulates ==
  [][/\ familiarityRatings' # familiarityRatings =>
          (step = "result" /\ step' = "welcome")
     /\ DOMAIN familiarityRatings \subseteq DOMAIN familiarityRatings'
     /\ (step = "result" /\ step' = "welcome") =>
          \A k \in DOMAIN familiarityRatings :
            k # recommendations.array[1].foodName.str =>
              familiarityRatings'[k] = familiarityRatings[k]]_vars

\* a later session has failed: on the error screen both earlier ratings are
\* still in the table
C15_Witness ==
  /\ step = "error"
  /\ Cardinality(DOMAIN familiarityRatings) = 2
  /\ inflight = {}

\* C16: provided every external call completes, the app does not stay in a
\* waiting step: gettingWeather leads to manualWeather or preferences, and
\* loading leads to result or error.
C16_WaitingStepsEnd ==
  /\ (step = "gettingWeather") ~> (step \in {"manualWeather", "preferences"})
  /\ (step = "loading") ~> (step \in {"result", "error"})

\* the loading step with the image request pending, the last wait of a
\* submission
C16_Witness ==
  /\ step = "loading"
  /\ \E req \in inflight : req.op = "generateFoodImage"
  /\ currentUserRating # Null

(***************************************************************************)
(* C17: whenever the step is result, the result screen is rendered (the    *)
(* list is non-empty and currentUserRating is non-null) and its            *)
(* save-and-retry button can be pressed.                                   *)
(* Refuted: a first item whose familiarity is null passes the service's    *)
(* comparison with undefined, setCurrentUserRating(null) follows, and the  *)
(* result step renders nothing.                                            *)
(***************************************************************************)
C17_ResultNeverBlank ==
  step = "result" => /\ resultRendered
                     /\ ENABLED resetAndSaveRating

(***************************************************************************)
(* C18: whenever the step is preferences, loading or result the weather is *)
(* non-null, and every recommendation request in flight carries a non-null *)
(* weather.                                                                *)
(***************************************************************************)
C18_WeatherKnown ==
  /\ step \in {"preferences", "loading", "result"} => weather # Null
  /\ \A req \in inflight :
       req.op = "getFoodRecommendation" => req.weather # Null

\* a recommendation request is in flight with the manually selected weather
C18_Witness ==
  \E req \in inflight :
    /\ req.op = "getFoodRecommendation"
    /\ req.weather = WeatherInfo("SNOWY", manualTemperature("SNOWY"))
    /\ weather = req.weather

\* the image call of a submission completes without a result screen
ImageCallFails ==
  /\ \E req \in inflight : req.op = "generateFoodImage"
  /\ inflight' = {}
  /\ step' # "result"

(***************************************************************************)
(* C19: in every reachable state the error message is non-null exactly     *)
(* when the step is error, and recommendations is non-null only when the   *)
(* step is result; a failed image call after a successful recommendation   *)
(* call ends in the error step with a message and without recommendations. *)
(***************************************************************************)
C19_ErrorAndRecommendationsFollowStep ==
  /\ []((error # Null) <=> (step = "error"))
  /\ [](recommendations # Null => step = "result")
  /\ [][ImageCallFails => /\ step' = "error"
                          /\ error' # Null
                          /\ recommendations' = Null]_vars

\* the error screen after a failed image call of a later session: the first
\* session's rating is in the table and no recommendations are held
C19_Witness ==
  /\ step = "error"
  /\ error = ErrorMessage
  /\ recommendations = Null
  /\ currentUserRating # Null
  /\ familiarityRatings # EmptyRatings

\* the callback is called at this step with a choice missing
CalledWithoutChoices ==
  /\ call.settled = Null
  /\ call'.settled # Null
  /\ mealTime = Null \/ foodPreference = Null

(***************************************************************************)
(* C20: handlePreferencesSubmit called while mealTime or foodPreference is *)
(* null changes nothing: the step stays preferences, the error and every   *)
(* other state variable stay as they were, and no request is issued.       *)
(***************************************************************************)
C20_SubmitWithoutChoicesIsNoOp ==
  [][CalledWithoutChoices => /\ step' = "preferences"
                             /\ UNCHANGED <<appState, inflight, effectDue>>
                             /\ inflight' = {}]_vars

\* the callback was called with a meal time but no food preference
C20_Witness ==
  /\ call.settled # Null
  /\ call.settled.mealTime # Null
  /\ call.settled.foodPreference = Null
  /\ step = "preferences"
  /\ inflight = {}

\* the temperature the manual weather screen attaches to each condition
ManualTemperatures ==
  [c \in WeatherCondition |->
     IF c = "HOT" THEN 30
     ELSE IF c = "COLD" THEN 5
     ELSE IF c = "SNOWY" THEN -2
     ELSE IF c = "RAINY" THEN 15
     ELSE 20]

(***************************************************************************)
(* C21: handleManualWeatherSelect(c) sets weather to condition c with the  *)
(* temperature 30 for HOT, 5 for COLD, -2 for SNOWY, 15 for RAINY and 20   *)
(* for SUNNY and CLOUDY, sets the step to preferences, and leaves          *)
(* mealTime, foodPreference, recommendations, error and the familiarity    *)
(* table unchanged.                                                        *)
(***************************************************************************)
C21_ManualWeatherSelect ==
  [][\A c \in WeatherCondition :
       (step = "manualWeather" /\ handleManualWeatherSelect(c)) =>
         /\ weather' = [condition |-> c, temperature |-> ManualTemperatures[c]]
         /\ step' = "preferences"
         /\ UNCHANGED <<mealTime, foodPreference, recommendations, error,
                        familiarityRatings>>]_vars

\* a later session chose HOT on the manual weather screen: the rating of
\* the first session is still in the table
C21_Witness ==
  /\ step = "preferences"
  /\ weather = [condition |-> "HOT", temperature |-> 30]
  /\ familiarityRatings # EmptyRatings
  /\ mealTime = Null
  /\ foodPreference = Null

====
